---- MODULE Spec2Model ----
(***************************************************************************)
(* A model of the timeline segment engine of the cutit video editor:       *)
(*   - the segment validator of the analysis service (validateSegments,    *)
(*     enforceOneBestPerGroup),                                            *)
(*   - the undo/redo history hook (useTimelineHistory),                    *)
(*   - the editor's handlers over it (handleAnalyze, handleSplit,          *)
(*     handleDelete, select, seek).                                        *)
(*                                                                         *)
(* Time is measured in ticks of 0.05 s, so the 0.1 s minimum duration of   *)
(* the source is MinDur = 2 ticks and a range can be shorter than the      *)
(* minimum without being empty.                                            *)
(***************************************************************************)
EXTENDS Integers, Sequences, FiniteSets, TLC

(***************************************************************************)
(* Bounds of the model.                                                    *)
(***************************************************************************)
\* largest raw timestamp and largest clip duration of the validator runs
MaxT == 3
\* longest raw list whose timestamps range over the whole grid
MaxRawRanges == 2
\* longest raw list whose groupId, score and isBest range freely
MaxRawBest == 3
\* longest past stack a set may still push onto
MaxHistory == 3
\* clips in the media pool
MaxClips == 2
\* longest past stack an edit of the editor may still push onto
MaxEdits == 3
\* the duration of a clip whose metadata loaded, in ticks
MaxClipDuration == 4
\* the runs of handleAnalyze in a session
MaxAnalyses == 1
\* the clips of a timeline that is edited, and their duration in ticks
MaxLoadedClips == 1
LoadedClipDuration == 7
\* the longest time between two animation frames, in ticks
MaxTickDelta == 2
\* the candidates of a raw list whose scores range freely
MaxRawScores == 2
\* the values a call of generateId may return
MaxIds == 3
\* the clips one call of analyzeClipsWithGemini is given
MaxServiceClips == 2
\* the clips and the timeline segments handed to exportVideo
MaxExportClips == 2
MaxExportSegments == 3
\* the clips behind the timeline whose segments are dragged
MaxDragClips == 2
\* the farthest the pointer travels from the mouse-down, in pixels
MaxDragDelta == 2

(***************************************************************************)
(* Program constants.                                                      *)
(***************************************************************************)
\* 0.1 s, the minimum duration, in ticks
MinDur == 2
\* the default of a missing or zero score
DefaultScore == 50
\* const maxRetries = 2 of analyzeClip
maxRetries == 2
\* the upper clamp of the score
MaxScore == 100

Min(a, b) == IF a < b THEN a ELSE b
Max(a, b) == IF a > b THEN a ELSE b

\* The value JavaScript's Number() gives for a missing or malformed field.
NaN == 0 - 1000

\* Number(x) || d : NaN and 0 are falsy and give the default.
NumberOr(x, d) == IF x = NaN \/ x = 0 THEN d ELSE x

\* seg.groupId || 'default'
GroupOr(g) == IF g = "" THEN "default" ELSE g

\* Boolean(seg.isBest) of a JSON value: only true is truthy among
\* true, false and a missing field.
Boolean(v) == v = "true"

(***************************************************************************)
(* end - start < 0.1 is evaluated in IEEE-754 doubles.  On the grid of     *)
(* 0.05 s ticks, with end = max(start + 0.1, e), the comparison differs    *)
(* from exact arithmetic exactly for these (start, e) pairs (up to 12      *)
(* ticks), where the rounded difference falls below 0.1.                   *)
(***************************************************************************)
FloatDropped ==
  { <<5, 5>>, <<5, 6>>, <<5, 7>>, <<7, 7>>, <<7, 8>>, <<8, 8>>, <<8, 9>>,
    <<8, 10>>, <<10, 10>>, <<10, 11>>, <<10, 12>>, <<11, 11>>, <<11, 12>>,
    <<12, 12>> }

(***************************************************************************)
(* validateSegments, step 1: parse one raw candidate.                      *)
(***************************************************************************)
\* the candidate's range after the swap and the two clamps of the code
ParsedRange(seg, duration) ==
  LET s0 == NumberOr(seg.start, 0)
      e0 == NumberOr(seg.end, 0)
      s1 == IF s0 > e0 THEN e0 ELSE s0
      e1 == IF s0 > e0 THEN s0 ELSE e0
      start == Max(0, Min(s1, duration))
      clampedEnd == Min(e1, duration)
      end == Max(start + MinDur, clampedEnd)
  IN  [start |-> start, end |-> end, clampedEnd |-> clampedEnd]

\* if (end - start < 0.1) continue;
IsSkipped(seg, duration) ==
  LET r == ParsedRange(seg, duration)
  IN  \/ r.end - r.start < MinDur
      \/ <<r.start, r.clampedEnd>> \in FloatDropped

ParsedSegment(seg, duration) ==
  LET r == ParsedRange(seg, duration)
  IN  [ text    |-> seg.text,
        start   |-> r.start,
        end     |-> r.end,
        groupId |-> GroupOr(seg.groupId),
        score   |-> Max(0, Min(MaxScore, NumberOr(seg.score, DefaultScore))),
        isBest  |-> Boolean(seg.isBest) ]

RECURSIVE ParseSegments(_, _)
ParseSegments(segments, duration) ==
  IF segments = <<>> THEN <<>>
  ELSE LET rest == ParseSegments(Tail(segments), duration)
       IN  IF IsSkipped(Head(segments), duration)
           THEN rest
           ELSE <<ParsedSegment(Head(segments), duration)>> \o rest

(***************************************************************************)
(* validSegments.sort((a, b) => a.start - b.start): a stable sort.         *)
(***************************************************************************)
RECURSIVE InsertByStart(_, _)
InsertByStart(sorted, seg) ==
  IF sorted = <<>> THEN <<seg>>
  ELSE IF seg.start < Head(sorted).start
       THEN <<seg>> \o sorted
       ELSE <<Head(sorted)>> \o InsertByStart(Tail(sorted), seg)

RECURSIVE SortByStart(_)
SortByStart(segs) ==
  IF segs = <<>> THEN <<>>
  ELSE InsertByStart(SortByStart(SubSeq(segs, 1, Len(segs) - 1)),
                     segs[Len(segs)])

(***************************************************************************)
(* validateSegments, step 2: the overlap pass, for i = 1 .. length-1       *)
(* (1-based here: i = 2 .. Len).                                           *)
(***************************************************************************)
RECURSIVE FixOverlapsFrom(_, _)
FixOverlapsFrom(segs, i) ==
  IF i > Len(segs) THEN segs
  ELSE LET prev == segs[i - 1]
           curr == segs[i]
       IN  IF curr.start < prev.end
           THEN FixOverlapsFrom(
                  [segs EXCEPT ![i - 1] = [prev EXCEPT !.end = curr.start]],
                  i + 1)
           ELSE FixOverlapsFrom(segs, i + 1)

\* mutant: the pass resolves an overlap by raising the later segment's start
RECURSIVE ShiftStartsFrom(_, _)
ShiftStartsFrom(segs, i) ==
  IF i > Len(segs) THEN segs
  ELSE LET prev == segs[i - 1]
           curr == segs[i]
       IN  IF curr.start < prev.end
           THEN ShiftStartsFrom(
                  [segs EXCEPT ![i] = [curr EXCEPT !.start = prev.end]],
                  i + 1)
           ELSE ShiftStartsFrom(segs, i + 1)

FixOverlapsShiftingStart(segs) == ShiftStartsFrom(segs, 2)

FixOverlaps(segs) == FixOverlapsFrom(segs, 2)

validateSegments(segments, duration) ==
  FixOverlaps(SortByStart(ParseSegments(segments, duration)))

(***************************************************************************)
(* enforceOneBestPerGroup.                                                 *)
(***************************************************************************)
\* the positions of a group's members, in list order
GroupMembers(segs, g) == { i \in 1..Len(segs) : segs[i].groupId = g }

\* the scan with bestScore = -1 and a strict comparison: the position of
\* the first member of the maximum score
RECURSIVE BestFrom(_, _, _, _)
BestFrom(segs, idxs, bestIdx, bestScore) ==
  IF idxs = {} THEN bestIdx
  ELSE LET i == CHOOSE x \in idxs : \A y \in idxs : x <= y
       IN  IF segs[i].score > bestScore
           THEN BestFrom(segs, idxs \ {i}, i, segs[i].score)
           ELSE BestFrom(segs, idxs \ {i}, bestIdx, bestScore)

\* mutant: the scan compares with >=, so the last maximum wins
RECURSIVE BestFromLast(_, _, _, _)
BestFromLast(segs, idxs, bestIdx, bestScore) ==
  IF idxs = {} THEN bestIdx
  ELSE LET i == CHOOSE x \in idxs : \A y \in idxs : x <= y
       IN  IF segs[i].score >= bestScore
           THEN BestFromLast(segs, idxs \ {i}, i, segs[i].score)
           ELSE BestFromLast(segs, idxs \ {i}, bestIdx, bestScore)

BestOfGroupLast(segs, g) ==
  LET members == GroupMembers(segs, g)
      first == CHOOSE x \in members : \A y \in members : x <= y
  IN  BestFromLast(segs, members, first, 0 - 1)

BestOfGroup(segs, g) ==
  LET members == GroupMembers(segs, g)
      first == CHOOSE x \in members : \A y \in members : x <= y
  IN  BestFrom(segs, members, first, 0 - 1)

enforceOneBestPerGroup(segs) ==
  [ i \in 1..Len(segs) |->
      IF Cardinality(GroupMembers(segs, segs[i].groupId)) <= 1
      THEN segs[i]
      ELSE [segs[i] EXCEPT !.isBest = (i = BestOfGroup(segs, segs[i].groupId))] ]

\* analyzeClip's use of the two: what a successful attempt returns
ValidatedAnalysis(segments, duration) ==
  enforceOneBestPerGroup(validateSegments(segments, duration))


(***************************************************************************)
(* useTimelineHistory: the hook's state is {past, present, future}; each   *)
(* of its callbacks hands React an updater of that state.                  *)
(***************************************************************************)
\* useState's initial value
InitialHistory(initialState) ==
  [past |-> <<>>, present |-> initialState, future |-> <<>>]

canUndo(curr) == Len(curr.past) > 0
canRedo(curr) == Len(curr.future) > 0

pushState(curr, newState) ==
  [ past    |-> Append(curr.past, curr.present),
    present |-> newState,
    future  |-> <<>> ]

\* mutant: undo appends the old present to the end of future
undoAppendingPresent(curr) ==
  IF Len(curr.past) = 0 THEN curr
  ELSE [ past    |-> SubSeq(curr.past, 1, Len(curr.past) - 1),
         present |-> curr.past[Len(curr.past)],
         future  |-> Append(curr.future, curr.present) ]

\* mutant: undo forgets to push the old present onto future
undoDroppingPresent(curr) ==
  IF Len(curr.past) = 0 THEN curr
  ELSE [ past    |-> SubSeq(curr.past, 1, Len(curr.past) - 1),
         present |-> curr.past[Len(curr.past)],
         future  |-> curr.future ]

undo(curr) ==
  IF Len(curr.past) = 0 THEN curr
  ELSE [ past    |-> SubSeq(curr.past, 1, Len(curr.past) - 1),
         present |-> curr.past[Len(curr.past)],
         future  |-> <<curr.present>> \o curr.future ]

\* mutant: redo takes the last future entry instead of the first
redoFromEnd(curr) ==
  IF Len(curr.future) = 0 THEN curr
  ELSE [ past    |-> Append(curr.past, curr.present),
         present |-> curr.future[Len(curr.future)],
         future  |-> SubSeq(curr.future, 1, Len(curr.future) - 1) ]

\* mutant: redo forgets to push the old present onto past
redoDroppingPresent(curr) ==
  IF Len(curr.future) = 0 THEN curr
  ELSE [ past    |-> curr.past,
         present |-> curr.future[1],
         future  |-> Tail(curr.future) ]

redo(curr) ==
  IF Len(curr.future) = 0 THEN curr
  ELSE [ past    |-> Append(curr.past, curr.present),
         present |-> curr.future[1],
         future  |-> Tail(curr.future) ]

\* prev => prev.filter(seg => seg.id !== id), the updater handleDelete passes
RECURSIVE FilterOutId(_, _)
FilterOutId(segs, id) ==
  IF segs = <<>> THEN <<>>
  ELSE IF Head(segs).id = id
       THEN FilterOutId(Tail(segs), id)
       ELSE <<Head(segs)>> \o FilterOutId(Tail(segs), id)

\* setSegments takes a new sequence or an updater of the present one
ValueArg(newState) == [kind |-> "value", value |-> newState, id |-> 0]
FilterArg(id) == [kind |-> "function", value |-> <<>>, id |-> id]

\* typeof newStateOrUpdater === 'function' ? newStateOrUpdater(curr.present)
\*                                         : newStateOrUpdater
ResolveArg(newStateOrUpdater, present) ==
  IF newStateOrUpdater.kind = "function"
  THEN FilterOutId(present, newStateOrUpdater.id)
  ELSE newStateOrUpdater.value

\* mutant: a set keeps the redo stack
setSegmentsKeepingFuture(curr, newStateOrUpdater) ==
  [ past    |-> Append(curr.past, curr.present),
    present |-> ResolveArg(newStateOrUpdater, curr.present),
    future  |-> curr.future ]

setSegments(curr, newStateOrUpdater) ==
  [ past    |-> Append(curr.past, curr.present),
    present |-> ResolveArg(newStateOrUpdater, curr.present),
    future  |-> <<>> ]

(***************************************************************************)
(* The editor (App): timeline segments, the split, and the timeline that   *)
(* handleAnalyze builds.  A timeline segment's range is kept as the two    *)
(* fields start and end; its color is the index of GROUP_COLORS that its   *)
(* group was given.                                                        *)
(***************************************************************************)
\* GROUP_COLORS.length
PaletteSize == 8

\* groupColors[seg.groupId] || '#ccc'
FallbackColor == PaletteSize

\* no id: null
NoId == 0

SegmentDuration(seg) == seg.end - seg.start

RECURSIVE TotalDuration(_)
TotalDuration(segs) ==
  IF segs = <<>> THEN 0
  ELSE SegmentDuration(Head(segs)) + TotalDuration(Tail(segs))

\* timelineSegments.slice(0, i).reduce(...): where segment i starts on the
\* timeline (1-based i)
SegmentStartTime(segs, i) == TotalDuration(SubSeq(segs, 1, i - 1))

\* findIndex over the segments with the accumulated time; 0 for -1
SplitTargetIndex(segs, time) ==
  LET hits == { i \in 1..Len(segs) :
                  /\ time >= SegmentStartTime(segs, i)
                  /\ time < SegmentStartTime(segs, i) + SegmentDuration(segs[i]) }
  IN  IF hits = {} THEN 0 ELSE CHOOSE i \in hits : \A j \in hits : i <= j

\* (a variant that forgets the check at the end of the segment)
SplitRejectedNearStartOnly(segs, time) ==
  LET i == SplitTargetIndex(segs, time)
  IN  \/ i = 0
      \/ time - SegmentStartTime(segs, i) < MinDur

\* the safety check of handleSplit: too close to an edge
SplitRejected(segs, time) ==
  LET i == SplitTargetIndex(segs, time)
  IN  \/ i = 0
      \/ LET offset == time - SegmentStartTime(segs, i)
         IN  \/ offset < MinDur
             \/ offset > SegmentDuration(segs[i]) - MinDur

\* (a variant that takes the offset on the timeline for the split point in
\* the clip)
SplitSegmentsAtOffset(segs, time, id1, id2) ==
  LET i == SplitTargetIndex(segs, time)
      originalSeg == segs[i]
      splitPoint == time - SegmentStartTime(segs, i)
      newSeg1 == [originalSeg EXCEPT !.id = id1, !.end = splitPoint]
      newSeg2 == [originalSeg EXCEPT !.id = id2, !.start = splitPoint]
  IN  SubSeq(segs, 1, i - 1) \o <<newSeg1, newSeg2>>
        \o SubSeq(segs, i + 1, Len(segs))

\* newSegments.splice(splitTargetIndex, 1, newSeg1, newSeg2)
SplitSegments(segs, time, id1, id2) ==
  LET i == SplitTargetIndex(segs, time)
      originalSeg == segs[i]
      offset == time - SegmentStartTime(segs, i)
      splitPoint == originalSeg.start + offset
      newSeg1 == [originalSeg EXCEPT !.id = id1, !.end = splitPoint]
      newSeg2 == [originalSeg EXCEPT !.id = id2, !.start = splitPoint]
  IN  SubSeq(segs, 1, i - 1) \o <<newSeg1, newSeg2>>
        \o SubSeq(segs, i + 1, Len(segs))

\* getCurrentSegmentAndOffset returned null
NoSegment == [found |-> FALSE, index |-> 0, offset |-> 0]

\* (a variant whose test lets the end of a segment in: time <= accumulated
\* + duration)
RECURSIVE ResolveFromInclusive(_, _, _, _)
ResolveFromInclusive(segs, i, accumulated, time) ==
  IF i > Len(segs) THEN NoSegment
  ELSE LET duration == segs[i].end - segs[i].start
       IN  IF time >= accumulated /\ time <= accumulated + duration
           THEN [found |-> TRUE, index |-> i, offset |-> time - accumulated]
           ELSE ResolveFromInclusive(segs, i + 1, accumulated + duration, time)

getCurrentSegmentAndOffsetInclusive(segs, time) ==
  ResolveFromInclusive(segs, 1, 0, time)

\* the loop of getCurrentSegmentAndOffset from segment i on (1-based i)
RECURSIVE ResolveFrom(_, _, _, _)
ResolveFrom(segs, i, accumulated, time) ==
  IF i > Len(segs) THEN NoSegment
  ELSE LET duration == segs[i].end - segs[i].start
       IN  IF time >= accumulated /\ time < accumulated + duration
           THEN [found |-> TRUE, index |-> i, offset |-> time - accumulated]
           ELSE ResolveFrom(segs, i + 1, accumulated + duration, time)

\* the segment under a timeline time and the offset into it
getCurrentSegmentAndOffset(segs, time) == ResolveFrom(segs, 1, 0, time)

\* the groups of a list of analyzed segments, in first-seen order
RECURSIVE SeenGroups(_, _)
SeenGroups(segs, seen) ==
  IF segs = <<>> THEN seen
  ELSE IF \E k \in 1..Len(seen) : seen[k] = Head(segs).groupId
       THEN SeenGroups(Tail(segs), seen)
       ELSE SeenGroups(Tail(segs), Append(seen, Head(segs).groupId))

\* the groupColors of a run: over the clips in order, each analysed clip's
\* segments in order, a group not seen yet takes the next palette entry
RECURSIVE GroupOrder(_, _, _)
GroupOrder(clipList, analyses, seen) ==
  IF clipList = <<>> THEN seen
  ELSE LET a == analyses[Head(clipList).id]
       IN  GroupOrder(Tail(clipList), analyses,
                      IF a.has THEN SeenGroups(a.segments, seen) ELSE seen)

ColorOf(groupId, order) ==
  IF \E k \in 1..Len(order) : order[k] = groupId
  THEN ((CHOOSE k \in 1..Len(order) : order[k] = groupId) - 1) % PaletteSize
  ELSE FallbackColor

\* clips.map(...): a clip with a result of this run takes it and is done
UpdatedClips(clipList, analyses) ==
  [ i \in 1..Len(clipList) |->
      IF analyses[clipList[i].id].has
      THEN [clipList[i] EXCEPT !.analysis = analyses[clipList[i].id],
                               !.status = "done"]
      ELSE clipList[i] ]

\* (a variant that keeps the best takes only)
ClipTimelineBestOnly(clip, order, newIds) ==
  LET sortedSegments ==
        SelectSeq(SortByStart(clip.analysis.segments), LAMBDA s : s.isBest)
  IN  [ k \in 1..Len(sortedSegments) |->
          [ id     |-> newIds[k],
            clipId |-> clip.id,
            start  |-> sortedSegments[k].start,
            end    |-> sortedSegments[k].end,
            isBest |-> sortedSegments[k].isBest,
            score  |-> sortedSegments[k].score,
            color  |-> ColorOf(sortedSegments[k].groupId, order),
            text   |-> sortedSegments[k].text ] ]

\* one clip's timeline segments: its analysis sorted by start, a fresh id
\* each (the first ids of newIds)
ClipTimeline(clip, order, newIds) ==
  LET sortedSegments == SortByStart(clip.analysis.segments)
  IN  [ k \in 1..Len(sortedSegments) |->
          [ id     |-> newIds[k],
            clipId |-> clip.id,
            start  |-> sortedSegments[k].start,
            end    |-> sortedSegments[k].end,
            isBest |-> sortedSegments[k].isBest,
            score  |-> sortedSegments[k].score,
            color  |-> ColorOf(sortedSegments[k].groupId, order),
            text   |-> sortedSegments[k].text ] ]

\* updatedClips.forEach(...): the clips with an analysis, in order
RECURSIVE BuildTimeline(_, _, _)
BuildTimeline(updatedClips, order, newIds) ==
  IF updatedClips = <<>> THEN <<>>
  ELSE LET clip == Head(updatedClips)
           n == Len(clip.analysis.segments)
       IN  IF ~clip.analysis.has
           THEN BuildTimeline(Tail(updatedClips), order, newIds)
           ELSE ClipTimeline(clip, order, newIds)
                  \o BuildTimeline(Tail(updatedClips), order,
                                   SubSeq(newIds, n + 1, Len(newIds)))

\* the number of timeline segments handleAnalyze builds
RECURSIVE TimelineLength(_)
TimelineLength(updatedClips) ==
  IF updatedClips = <<>> THEN 0
  ELSE (IF Head(updatedClips).analysis.has
        THEN Len(Head(updatedClips).analysis.segments) ELSE 0)
       + TimelineLength(Tail(updatedClips))

\* the ids of a list of timeline segments
IdsOf(segs) == { segs[i].id : i \in 1..Len(segs) }

\* the segment ids the editor still holds: those of every snapshot of the
\* history, and the selection
HeldIds(h, selected) ==
  UNION { IdsOf(h.past[i]) : i \in 1..Len(h.past) }
    \cup IdsOf(h.present)
    \cup UNION { IdsOf(h.future[i]) : i \in 1..Len(h.future) }
    \cup {selected}

\* generateId: Math.random().toString(36).substr(2, 9).  Ids are only ever
\* compared for equality, so the id is taken to be the least number that
\* is no id in use; a clip, whose id is never compared with a segment's,
\* takes its position in the media pool.
generateId(used) ==
  CHOOSE id \in 1..(Cardinality(used) + 1) :
    /\ id \notin used
    /\ \A other \in 1..(id - 1) : other \in used

\* n calls of generateId in a row
RECURSIVE GenerateIds(_, _)
GenerateIds(n, used) ==
  IF n = 0 THEN <<>>
  ELSE LET id == generateId(used)
       IN  <<id>> \o GenerateIds(n - 1, used \cup {id})

ClipId(position) == position

(***************************************************************************)
(* State.                                                                  *)
(***************************************************************************)
VARIABLES
  \* the validator's run: the raw list from the model, the clip's duration,
  \* the list analyzeClip returns, and where the run stands
  vmode, rawSegments, duration, validated, vpc,
  \* the history hook's state {past, present, future}
  history,
  \* the last call made, its argument and the state it was made in
  \* (bookkeeping, read only by the properties)
  lastOp,
  \* bookkeeping for the round trip: how far the calls so far follow the
  \* pattern set^n undo^n redo^n from a fresh history
  run,
  \* App: the media pool, the processing status, the clips handleAnalyze
  \* captured when it started, the selected segment and the playhead
  clips, status, pending, selectedSegmentId, timelineTime,
  \* how many times handleAnalyze has run (bookkeeping for the bound)
  analysisRuns,
  \* App: playback is on; the clip of the media pool that is previewed
  isPlaying, previewClipId,
  \* Timeline: the gesture in progress and its drop target, and the calls
  \* of onReorderSegments / onResizeSegment made since its mouse-down
  \* (bookkeeping, read only by the properties)
  dragState, dropTargetIndex, gestureOps,
  \* analyzeClipsWithGemini: the call in progress (its position, the
  \* attempt's locals, its results, and the bookkeeping of attempts,
  \* errors and delete requests the properties read)
  service,
  \* exportVideo and the export server: the request and what was rendered
  exportJob

validatorVars == <<vmode, rawSegments, duration, validated, vpc>>

historyVars == <<history, lastOp, run>>

appVars == <<clips, status, pending, selectedSegmentId, timelineTime,
            analysisRuns>>

playVars == <<isPlaying, previewClipId>>

dragVars == <<dragState, dropTargetIndex, gestureOps>>

ioVars == <<service, exportJob>>

vars == <<vmode, rawSegments, duration, validated, vpc, history, lastOp, run,
          clips, status, pending, selectedSegmentId, timelineTime,
          analysisRuns, isPlaying, previewClipId, dragState, dropTargetIndex,
          gestureOps, service, exportJob>>

\* dropTargetIndex = null (indices count from 0)
NoIndex == 0 - 1

\* dragState = null
NoDrag == [type |-> "none", segmentId |-> NoId, segmentIndex |-> NoIndex]

\* nothing plays and nothing is previewed
PlaybackIdle ==
  /\ isPlaying = FALSE
  /\ previewClipId = NoId

\* no gesture on the timeline
NoGesture ==
  /\ dragState = NoDrag
  /\ dropTargetIndex = NoIndex
  /\ gestureOps = 0

\* no call of the analysis service and no export
NoService == [pc |-> "none"]

NoExport == [pc |-> "none"]

NoInputOutput ==
  /\ service = NoService
  /\ exportJob = NoExport

\* the record of a call on the hook: its name, its argument and the
\* history it was made in
Op(name, arg, before) == [op |-> name, arg |-> arg, before |-> before]

NoOp == Op("none", ValueArg(<<>>), InitialHistory(<<>>))

NoRun == [ok |-> FALSE, sets |-> 0, undos |-> 0, redos |-> 0,
          initial |-> <<>>, last |-> <<>>]

\* the validator alone: no history in use
HistoryUnused ==
  /\ history = InitialHistory(<<>>)
  /\ lastOp = NoOp
  /\ run = NoRun

\* no editor around the component under study
AppUnused ==
  /\ clips = <<>>
  /\ status = "IDLE"
  /\ pending = <<>>
  /\ selectedSegmentId = NoId
  /\ timelineTime = 0
  /\ analysisRuns = 0
  /\ PlaybackIdle
  /\ NoGesture

\* the history alone: no validator run
ValidatorUnused ==
  /\ vmode = "none"
  /\ rawSegments = <<>>
  /\ duration = 0
  /\ validated = <<>>
  /\ vpc = "none"

(***************************************************************************)
(* The validator on the raw lists of the analysis model.  The model is an  *)
(* untrusted collaborator: a run draws a raw list, candidate by candidate, *)
(* and then validates it.  Two families of raw lists are drawn: "ranges"   *)
(* lets both timestamps range over the whole grid (negative, inverted,     *)
(* beyond the duration), "best" lets groupId, score and isBest range       *)
(* freely over two overlapping ranges, "scores" lets the score range over  *)
(* missing, negative, zero, ordinary and too large values on consecutive   *)
(* ranges.  A candidate's text is its position in the raw list, so that    *)
(* it can be told apart in the output.                                     *)
(***************************************************************************)
RawTimes == (0 - 1)..MaxT

Durations == 0..MaxT

BestRanges == { <<0, MinDur>>, <<1, 1 + MinDur>> }

\* a missing or malformed score, and numbers below, in and above 0..100
RawScores == {NaN, 0 - 10, 0, 40, MaxScore, MaxScore + DefaultScore}

RawCandidates(mode, idx) ==
  IF mode = "ranges"
  THEN { [ text |-> idx, start |-> s, end |-> e, groupId |-> "g1",
           score |-> 40, isBest |-> "false" ] :
         s \in RawTimes, e \in RawTimes }
  ELSE IF mode = "scores"
  THEN { [ text |-> idx, start |-> (idx - 1) * MinDur, end |-> idx * MinDur,
           groupId |-> "g1", score |-> sc, isBest |-> "false" ] :
         sc \in RawScores }
  ELSE { [ text |-> idx, start |-> p[1], end |-> p[2], groupId |-> g,
           score |-> sc, isBest |-> b ] :
         p \in BestRanges, g \in {"g1", "g2"}, sc \in {40, 90},
         b \in {"true", "false"} }

MaxRaw(mode) ==
  IF mode = "ranges" THEN MaxRawRanges
  ELSE IF mode = "scores" THEN MaxRawScores
  ELSE MaxRawBest

ValidatorInit ==
  /\ vmode \in {"ranges", "best", "scores"}
  /\ rawSegments = <<>>
  /\ duration \in (IF vmode = "ranges" THEN Durations
                   ELSE IF vmode = "scores" THEN {MaxRawScores * MinDur}
                   ELSE {MaxT})
  /\ validated = <<>>
  /\ vpc = "raw"
  /\ HistoryUnused
  /\ AppUnused
  /\ NoInputOutput

\* the model's response carries one more candidate
RawSegment ==
  /\ vpc = "raw"
  /\ Len(rawSegments) < MaxRaw(vmode)
  /\ \E seg \in RawCandidates(vmode, Len(rawSegments) + 1) :
       rawSegments' = Append(rawSegments, seg)
  /\ UNCHANGED <<vmode, duration, validated, vpc>>
  /\ UNCHANGED <<historyVars, appVars, playVars, dragVars, ioVars>>

\* analyzeClip validates the response
Validate ==
  /\ vpc = "raw"
  /\ validated' = ValidatedAnalysis(rawSegments, duration)
  /\ vpc' = "validated"
  /\ UNCHANGED <<vmode, rawSegments, duration>>
  /\ UNCHANGED <<historyVars, appVars, playVars, dragVars, ioVars>>

ValidatorNext == RawSegment \/ Validate

SpecValidator == ValidatorInit /\ [][ValidatorNext]_vars

(***************************************************************************)
(* The history hook on its own: a caller constructs it with some initial   *)
(* sequence and calls setSegments (with a value or an updater), pushState, *)
(* undo and redo in any order.  The sequences are drawn from a small set   *)
(* of timelines over two segments.                                         *)
(***************************************************************************)
SampleSegment(id) ==
  [ id |-> id, clipId |-> 1, start |-> 0, end |-> 2 * MinDur,
    isBest |-> FALSE, score |-> DefaultScore, color |-> 0, text |-> id ]

SampleSequences ==
  { <<>>, <<SampleSegment(1)>>, <<SampleSegment(1), SampleSegment(2)>> }

SampleArgs ==
  { ValueArg(s) : s \in SampleSequences } \cup { FilterArg(1) }

HistoryInit ==
  /\ ValidatorUnused
  /\ AppUnused
  /\ NoInputOutput
  /\ \E initialState \in SampleSequences :
       /\ history = InitialHistory(initialState)
       /\ run = [ok |-> TRUE, sets |-> 0, undos |-> 0, redos |-> 0,
                 initial |-> initialState, last |-> initialState]
  /\ lastOp = NoOp

\* the round-trip bookkeeping
RunAfterSet(newPresent) ==
  IF run.ok /\ run.undos = 0 /\ run.redos = 0
  THEN [run EXCEPT !.sets = @ + 1, !.last = newPresent]
  ELSE NoRun

RunAfterUndo ==
  IF run.ok /\ run.redos = 0 /\ run.undos < run.sets
  THEN [run EXCEPT !.undos = @ + 1]
  ELSE NoRun

RunAfterRedo ==
  IF run.ok /\ run.undos = run.sets /\ run.redos < run.sets
  THEN [run EXCEPT !.redos = @ + 1]
  ELSE NoRun

CallSetSegments ==
  /\ Len(history.past) < MaxHistory
  /\ \E arg \in SampleArgs :
       /\ history' = setSegments(history, arg)
       /\ lastOp' = Op("setSegments", arg, history)
       /\ run' = RunAfterSet(ResolveArg(arg, history.present))
  /\ UNCHANGED <<validatorVars, ioVars, appVars, playVars, dragVars>>

CallPushState ==
  /\ Len(history.past) < MaxHistory
  /\ \E newState \in SampleSequences :
       /\ history' = pushState(history, newState)
       /\ lastOp' = Op("pushState", ValueArg(newState), history)
       /\ run' = RunAfterSet(newState)
  /\ UNCHANGED <<validatorVars, ioVars, appVars, playVars, dragVars>>

CallUndo ==
  /\ history' = undo(history)
  /\ lastOp' = Op("undo", ValueArg(<<>>), history)
  /\ run' = RunAfterUndo
  /\ UNCHANGED <<validatorVars, ioVars, appVars, playVars, dragVars>>

CallRedo ==
  /\ history' = redo(history)
  /\ lastOp' = Op("redo", ValueArg(<<>>), history)
  /\ run' = RunAfterRedo
  /\ UNCHANGED <<validatorVars, ioVars, appVars, playVars, dragVars>>

HistoryNext == CallSetSegments \/ CallPushState \/ CallUndo \/ CallRedo

SpecHistory == HistoryInit /\ [][HistoryNext]_vars

(***************************************************************************)
(* The editor.  The user uploads clips, their metadata loads or fails,     *)
(* handleAnalyze runs the analysis (it awaits the service, so other        *)
(* events interleave with it), and the timeline is edited through the      *)
(* history hook.  The analysis model answers each clip with one of a few   *)
(* raw lists or fails for it.                                              *)
(***************************************************************************)
\* the raw lists the model may return for a clip of duration d:
\* two overlapping takes of one group (the later one marked best), or one
\* take over the whole clip
RawMenu(d) ==
  << << [ text |-> 1, start |-> 0, end |-> d - 1, groupId |-> "g1",
          score |-> 40, isBest |-> "false" ],
        [ text |-> 2, start |-> MinDur, end |-> d, groupId |-> "g1",
          score |-> 90, isBest |-> "true" ] >>,
     << [ text |-> 1, start |-> 0, end |-> d, groupId |-> "g1",
          score |-> 90, isBest |-> "true" ] >> >>

NoAnalysis == [has |-> FALSE, segments |-> <<>>]


AppInit ==
  /\ ValidatorUnused
  /\ history = InitialHistory(<<>>)
  /\ lastOp = NoOp
  /\ run = NoRun
  /\ clips = <<>>
  /\ status = "IDLE"
  /\ pending = <<>>
  /\ selectedSegmentId = NoId
  /\ timelineTime = 0
  /\ analysisRuns = 0
  /\ PlaybackIdle
  /\ NoGesture
  /\ NoInputOutput

\* handleUpload with one file
handleUpload ==
  /\ Len(clips) < MaxClips
  /\ clips' = Append(clips, [ id |-> ClipId(Len(clips) + 1), duration |-> 0,
                              status |-> "loading", analysis |-> NoAnalysis ])
  /\ UNCHANGED <<history, lastOp, run, status, pending, selectedSegmentId,
                 timelineTime, analysisRuns, validatorVars, ioVars, playVars, dragVars>>

\* video.onloadedmetadata of a clip that was loading
MetadataLoaded ==
  /\ \E i \in 1..Len(clips) :
       /\ clips[i].status = "loading"
       /\ clips[i].duration = 0
       /\ clips' = [clips EXCEPT ![i].duration = MaxClipDuration,
                                 ![i].status = "ready"]
  /\ UNCHANGED <<history, lastOp, run, status, pending, selectedSegmentId,
                 timelineTime, analysisRuns, validatorVars, ioVars, playVars, dragVars>>

\* video.onerror of a clip that was loading
MetadataError ==
  /\ \E i \in 1..Len(clips) :
       /\ clips[i].status = "loading"
       /\ clips[i].duration = 0
       /\ clips' = [clips EXCEPT ![i].status = "error"]
  /\ UNCHANGED <<history, lastOp, run, status, pending, selectedSegmentId,
                 timelineTime, analysisRuns, validatorVars, ioVars, playVars, dragVars>>

\* the Analyze button is enabled
allClipsReady ==
  Len(clips) > 0 /\ \A i \in 1..Len(clips) : clips[i].status # "loading"

\* handleAnalyze up to its await: the clips are captured
AnalyzeStart ==
  /\ status # "ANALYZING"
  /\ allClipsReady
  /\ analysisRuns < MaxAnalyses
  /\ Len(history.past) < MaxEdits
  /\ status' = "ANALYZING"
  /\ pending' = clips
  /\ analysisRuns' = analysisRuns + 1
  /\ UNCHANGED <<history, lastOp, run, clips, selectedSegmentId, timelineTime,
                 validatorVars, ioVars, playVars, dragVars>>

\* analyzeClipsWithGemini throws (no API key): the catch of handleAnalyze
AnalyzeThrows ==
  /\ status = "ANALYZING"
  /\ status' = "ERROR"
  /\ pending' = <<>>
  /\ UNCHANGED <<history, lastOp, run, clips, selectedSegmentId, timelineTime,
                 analysisRuns, validatorVars, ioVars, playVars, dragVars>>

\* the results of analyzeClipsWithGemini: outcome[i] = 0 when clip i's
\* analysis threw after its retries, else the raw list it was answered with
Analyses(clipList, outcome) ==
  [ id \in { clipList[i].id : i \in 1..Len(clipList) } |->
      LET i == CHOOSE k \in 1..Len(clipList) : clipList[k].id = id
      IN  IF outcome[i] = 0
          THEN NoAnalysis
          ELSE [ has |-> TRUE,
                 segments |->
                   ValidatedAnalysis(RawMenu(clipList[i].duration)[outcome[i]],
                                     clipList[i].duration) ] ]

\* handleAnalyze after its await: the media pool and the timeline are set
AnalyzeCompletes ==
  /\ status = "ANALYZING"
  /\ Len(history.past) < MaxEdits
  /\ \E outcome \in [1..Len(pending) -> 0..2] :
       LET analyses == Analyses(pending, outcome)
           updatedClips == UpdatedClips(pending, analyses)
           order == GroupOrder(pending, analyses, <<>>)
           newIds == GenerateIds(TimelineLength(updatedClips),
                                 HeldIds(history, selectedSegmentId))
           newSegments == BuildTimeline(updatedClips, order, newIds)
       IN  /\ clips' = updatedClips
           /\ history' = setSegments(history, ValueArg(newSegments))
  /\ status' = "COMPLETED"
  /\ pending' = <<>>
  /\ UNCHANGED <<lastOp, run, selectedSegmentId, timelineTime, analysisRuns, validatorVars, ioVars, playVars, dragVars>>

\* onSelectSegment: a click on a segment, or on the empty track
SelectSegment ==
  /\ \E id \in { history.present[i].id : i \in 1..Len(history.present) }
               \cup {NoId} :
       /\ id # selectedSegmentId \/ previewClipId # NoId
       /\ selectedSegmentId' = id
  /\ previewClipId' = NoId
  /\ UNCHANGED <<history, lastOp, run, clips, status, pending, timelineTime,
                 analysisRuns, validatorVars, ioVars, isPlaying, dragVars>>

\* onSeek: a click on the track, which may be wider than the timeline
Seek ==
  /\ \E time \in 0..(TotalDuration(history.present) + 1) :
       /\ time # timelineTime \/ previewClipId # NoId
       /\ timelineTime' = time
  /\ previewClipId' = NoId
  /\ UNCHANGED <<history, lastOp, run, clips, status, pending, selectedSegmentId,
                 analysisRuns, validatorVars, ioVars, isPlaying, dragVars>>

handleDelete ==
  /\ selectedSegmentId # NoId
  /\ Len(history.past) < MaxEdits
  /\ history' = setSegments(history, FilterArg(selectedSegmentId))
  /\ selectedSegmentId' = NoId
  /\ UNCHANGED <<lastOp, run, clips, status, pending, timelineTime,
                 analysisRuns, validatorVars, ioVars, playVars, dragVars>>

handleSplit ==
  /\ Len(history.past) < MaxEdits
  /\ IF SplitRejected(history.present, timelineTime)
     THEN UNCHANGED <<history, selectedSegmentId>>
     ELSE LET newIds == GenerateIds(2, HeldIds(history, selectedSegmentId))
              newSegments ==
                SplitSegments(history.present, timelineTime,
                              newIds[1], newIds[2])
          IN  /\ history' = setSegments(history, ValueArg(newSegments))
              /\ selectedSegmentId' = newIds[2]
  /\ UNCHANGED <<lastOp, run, clips, status, pending, timelineTime, analysisRuns, validatorVars, ioVars, playVars, dragVars>>

\* the Undo button and Ctrl+Z, both enabled by canUndo
Undo ==
  /\ canUndo(history)
  /\ history' = undo(history)
  /\ UNCHANGED <<lastOp, run, appVars, validatorVars, ioVars, playVars, dragVars>>

\* the Redo button and Ctrl+Shift+Z, both enabled by canRedo
Redo ==
  /\ canRedo(history)
  /\ history' = redo(history)
  /\ UNCHANGED <<lastOp, run, appVars, validatorVars, ioVars, playVars, dragVars>>

Next ==
  \/ handleUpload
  \/ MetadataLoaded
  \/ MetadataError
  \/ AnalyzeStart
  \/ AnalyzeThrows
  \/ AnalyzeCompletes
  \/ SelectSegment
  \/ Seek
  \/ handleDelete
  \/ handleSplit
  \/ Undo
  \/ Redo

Spec == AppInit /\ [][Next]_vars

(***************************************************************************)
(* Editing a loaded timeline.  The editor is taken right after a run of    *)
(* handleAnalyze that succeeded for every clip of the media pool: the      *)
(* clips are done, the history holds the empty timeline and the loaded     *)
(* one.  From there the user seeks, selects, splits, deletes, undoes and   *)
(* redoes.                                                                 *)
(***************************************************************************)
\* n clips whose metadata loaded
ReadyClips(n, d) ==
  [ i \in 1..n |-> [ id |-> ClipId(i), duration |-> d, status |-> "ready",
                     analysis |-> NoAnalysis ] ]

EditInit ==
  /\ ValidatorUnused
  /\ lastOp = NoOp
  /\ run = NoRun
  /\ \E n \in 1..MaxLoadedClips :
       \E outcome \in [1..n -> 1..2] :
         LET ready == ReadyClips(n, LoadedClipDuration)
             analyses == Analyses(ready, outcome)
             updatedClips == UpdatedClips(ready, analyses)
             order == GroupOrder(ready, analyses, <<>>)
             newIds == GenerateIds(TimelineLength(updatedClips),
                                   HeldIds(InitialHistory(<<>>), NoId))
             newSegments == BuildTimeline(updatedClips, order, newIds)
         IN  /\ clips = updatedClips
             /\ history = setSegments(InitialHistory(<<>>),
                                      ValueArg(newSegments))
  /\ status = "COMPLETED"
  /\ pending = <<>>
  /\ selectedSegmentId = NoId
  /\ timelineTime = 0
  /\ analysisRuns = 1
  /\ PlaybackIdle
  /\ NoGesture
  /\ NoInputOutput

EditNext ==
  \/ SelectSegment
  \/ Seek
  \/ handleDelete
  \/ handleSplit
  \/ Undo
  \/ Redo

SpecEdit == EditInit /\ [][EditNext]_vars

(***************************************************************************)
(* Playback of a loaded timeline.  The user toggles play, seeks, previews  *)
(* a clip of the media pool and edits; while isPlaying holds in timeline   *)
(* mode the effect keeps an animation frame requested, and each frame      *)
(* runs tick.  A state update and the effects it triggers are one step.    *)
(***************************************************************************)
togglePlay ==
  /\ IF isPlaying
     THEN /\ isPlaying' = FALSE
          /\ UNCHANGED timelineTime
     ELSE /\ timelineTime' =
               IF /\ previewClipId = NoId
                  /\ timelineTime >= TotalDuration(history.present)
                  /\ TotalDuration(history.present) > 0
               THEN 0
               ELSE timelineTime
          /\ isPlaying' = TRUE
  /\ lastOp' = Op("togglePlay", ValueArg(<<>>), history)
  /\ UNCHANGED <<history, run, clips, status, pending, selectedSegmentId,
                 analysisRuns, previewClipId, validatorVars, ioVars, dragVars>>

\* (a variant that lets the playhead run past the end)
TickTimeUnclamped(prev, delta, totalDuration) == prev + delta

\* the value the updater of tick returns for timelineTime
TickTime(prev, delta, totalDuration) ==
  IF prev + delta >= totalDuration THEN totalDuration ELSE prev + delta

\* the updater of tick leaves isPlaying alone
TickContinues(prev, delta, totalDuration) == prev + delta < totalDuration

\* an animation frame of the timeline sync loop
tick ==
  /\ isPlaying
  /\ previewClipId = NoId
  /\ \E delta \in 1..MaxTickDelta :
       LET totalDuration == TotalDuration(history.present)
       IN  /\ timelineTime' = TickTime(timelineTime, delta, totalDuration)
           /\ isPlaying' = TickContinues(timelineTime, delta, totalDuration)
  /\ lastOp' = Op("tick", ValueArg(<<>>), history)
  /\ UNCHANGED <<history, run, clips, status, pending, selectedSegmentId,
                 analysisRuns, previewClipId, validatorVars, ioVars, dragVars>>

\* onSelectClip of the media pool: preview a clip
SelectClip ==
  /\ \E i \in 1..Len(clips) :
       /\ previewClipId # clips[i].id \/ isPlaying
       /\ previewClipId' = clips[i].id
  /\ isPlaying' = FALSE
  /\ lastOp' = Op("selectClip", ValueArg(<<>>), history)
  /\ UNCHANGED <<history, run, clips, status, pending, selectedSegmentId,
                 timelineTime, analysisRuns, validatorVars, ioVars, dragVars>>

\* a click on the player: back to timeline mode
ExitPreview ==
  /\ previewClipId # NoId
  /\ previewClipId' = NoId
  /\ lastOp' = Op("exitPreview", ValueArg(<<>>), history)
  /\ UNCHANGED <<history, run, clips, status, pending, selectedSegmentId,
                 timelineTime, analysisRuns, isPlaying, validatorVars, ioVars,
                 dragVars>>

\* video.onended in preview mode
PreviewEnded ==
  /\ previewClipId # NoId
  /\ isPlaying
  /\ isPlaying' = FALSE
  /\ lastOp' = Op("previewEnded", ValueArg(<<>>), history)
  /\ UNCHANGED <<history, run, clips, status, pending, selectedSegmentId,
                 timelineTime, analysisRuns, previewClipId, validatorVars, ioVars,
                 dragVars>>

\* what the user does in the playback specification
PlaybackInput ==
  \/ togglePlay
  \/ Seek
  \/ SelectClip
  \/ ExitPreview
  \/ SelectSegment
  \/ handleDelete
  \/ Undo

PlaybackNext ==
  \/ togglePlay
  \/ tick
  \/ Seek
  \/ SelectClip
  \/ ExitPreview
  \/ PreviewEnded
  \/ SelectSegment
  \/ handleDelete
  \/ Undo

\* requestAnimationFrame keeps calling tick while the loop is active
SpecPlayback == EditInit /\ [][PlaybackNext]_vars /\ WF_vars(tick)


(***************************************************************************)
(* Claims about the history hook (SpecHistory).                            *)
(***************************************************************************)
IsSet(op) == op.op \in {"setSegments", "pushState"}

\* the sequence a set was called with: the value, or the updater applied
\* to the present of the state it was called in
NewSequence(op) ==
  IF op.arg.kind = "function"
  THEN FilterOutId(op.before.present, op.arg.id)
  ELSE op.arg.value

\* C1: from any history state, a set through setSegments or pushState
\* gives past = old past with old present appended, present = the new
\* sequence, future = empty; so after a set canRedo is false and a redo
\* leaves the history as it is.
C1_SetPushesAndClearsFuture ==
  /\ IsSet(lastOp) =>
       /\ history.past = Append(lastOp.before.past, lastOp.before.present)
       /\ history.present = NewSequence(lastOp)
       /\ history.future = <<>>
       /\ ~canRedo(history)
       /\ redo(history) = history
  /\ (lastOp.op = "redo" /\ lastOp.before.future = <<>>) =>
       history = lastOp.before

\* C1 witness: a set made after undos, in a state that had two redoable
\* snapshots.
C1_Witness ==
  /\ IsSet(lastOp)
  /\ Len(lastOp.before.future) >= 2
  /\ Len(lastOp.before.past) >= 1
  /\ history.future = <<>>

\* C2: undo leaves the history unchanged when past is empty; otherwise
\* the new present is the last element of past, which leaves past, and
\* the old present becomes the first element of future.
C2_Undo ==
  lastOp.op = "undo" =>
    LET b == lastOp.before
        n == Len(b.past)
    IN  IF n = 0
        THEN history = b
        ELSE /\ history.present = b.past[n]
             /\ history.past = SubSeq(b.past, 1, n - 1)
             /\ history.future = <<b.present>> \o b.future

\* C2 witness: an undo with two past snapshots and a non-empty future.
C2_Witness ==
  /\ lastOp.op = "undo"
  /\ Len(lastOp.before.past) >= 2
  /\ Len(lastOp.before.future) >= 1
  /\ history.present # lastOp.before.present

\* C3: redo leaves the history unchanged when future is empty; otherwise
\* the new present is the first element of future, which leaves future,
\* and the old present is appended to past.
C3_Redo ==
  lastOp.op = "redo" =>
    LET b == lastOp.before
    IN  IF Len(b.future) = 0
        THEN history = b
        ELSE /\ history.present = b.future[1]
             /\ history.future = Tail(b.future)
             /\ history.past = Append(b.past, b.present)

\* C3 witness: a redo with two future snapshots and a non-empty past.
C3_Witness ==
  /\ lastOp.op = "redo"
  /\ Len(lastOp.before.future) >= 2
  /\ Len(lastOp.before.past) >= 1
  /\ history.present # lastOp.before.present

\* C4: after N sets on a fresh history, N undos make present the initial
\* sequence with past empty, and N redos after that make present the
\* sequence of the N-th set with future empty.
C4_RoundTrip ==
  (run.ok /\ run.undos = run.sets) =>
    /\ run.redos = 0 =>
         (history.present = run.initial /\ history.past = <<>>)
    /\ run.redos = run.sets =>
         (history.present = run.last /\ history.future = <<>>)

\* C4 witness: three sets, three undos and three redos, ending in a
\* sequence other than the initial one and other than the second set's.
C4_Witness ==
  /\ run.ok
  /\ run.sets = 3
  /\ run.undos = 3
  /\ run.redos = 3
  /\ run.last # run.initial
  /\ history.past[3] # run.last

(***************************************************************************)
(* Claims about the validator (SpecValidator).                             *)
(***************************************************************************)
\* the length a raw candidate's range has after swapping an inverted
\* start/end and clamping both ends into [0, d]
ClampedStart(seg, d) == Max(0, Min(Min(seg.start, seg.end), d))
ClampedEnd(seg, d) == Max(0, Min(Max(seg.start, seg.end), d))
ClampedLength(seg, d) == ClampedEnd(seg, d) - ClampedStart(seg, d)

\* the step-1 list in start order, before the overlap pass
SortedParsed == SortByStart(ParseSegments(rawSegments, duration))

\* C5: every segment the validator returns lies within [0, duration]:
\* 0 <= start and end <= duration.
C5_WithinDuration ==
  vpc = "validated" =>
    \A i \in 1..Len(validated) :
      0 <= validated[i].start /\ validated[i].end <= duration

\* C6: the returned list is in ascending start order, no adjacent pair
\* overlaps (next.start >= prev.end), and the overlap pass only lowers an
\* earlier segment's end to the next segment's start: no start changes and
\* no end grows.
C6_OrderedNoOverlap ==
  vpc = "validated" =>
    LET parsed == SortedParsed
    IN  /\ \A i \in 1..(Len(validated) - 1) :
             /\ validated[i + 1].start >= validated[i].start
             /\ validated[i + 1].start >= validated[i].end
        /\ Len(validated) = Len(parsed)
        /\ \A i \in 1..Len(validated) :
             /\ validated[i].start = parsed[i].start
             /\ validated[i].text = parsed[i].text
             /\ \/ validated[i].end = parsed[i].end
                \/ /\ i < Len(validated)
                   /\ validated[i].end = validated[i + 1].start
                   /\ validated[i].end < parsed[i].end

\* C6 witness: a validated list in which the pass shrank a segment.
C6_Witness ==
  /\ vpc = "validated"
  /\ Len(validated) >= 2
  /\ \E i \in 1..(Len(validated) - 1) :
       /\ SortedParsed[i].end > SortedParsed[i + 1].start
       /\ validated[i].end = validated[i + 1].start

\* C7: a raw candidate whose range is shorter than the minimum duration
\* after the swap and the clamps is not in the returned list.
C7_SubMinimumDropped ==
  vpc = "validated" =>
    \A k \in 1..Len(rawSegments) :
      ClampedLength(rawSegments[k], duration) < MinDur =>
        \A i \in 1..Len(validated) : validated[i].text # k

\* the members of group g in the validated list
ValidatedMembers(g) == GroupMembers(validated, g)

\* C8: in a validated batch, a group of two or more members has exactly
\* one member with isBest, that member has the group's maximum score and
\* is the first of that score in output order; the member of a group of
\* one keeps the isBest value the model returned.
C8_OneBestPerGroup ==
  vpc = "validated" =>
    \A i \in 1..Len(validated) :
      LET members == ValidatedMembers(validated[i].groupId)
          top == { j \in members :
                     \A m \in members : validated[m].score <= validated[j].score }
      IN  IF Cardinality(members) >= 2
          THEN /\ Cardinality({ j \in members : validated[j].isBest }) = 1
               /\ validated[i].isBest <=>
                    (i \in top /\ \A j \in top : i <= j)
          ELSE validated[i].isBest
                 <=> (rawSegments[validated[i].text].isBest = "true")

\* C8 witness: a group whose two top members tie, in which the sort moved
\* a later candidate to the front, and whose isBest flags were all
\* overridden.
C8_Witness ==
  /\ vpc = "validated"
  /\ \E i, j \in 1..Len(validated) :
       /\ i < j
       /\ validated[i].groupId = validated[j].groupId
       /\ validated[i].score = validated[j].score
       /\ validated[i].text > validated[j].text
       /\ validated[i].isBest
       /\ rawSegments[validated[i].text].isBest = "false"
       /\ rawSegments[validated[j].text].isBest = "true"

(***************************************************************************)
(* Claims about the editor (Spec).                                         *)
(***************************************************************************)
\* the timeline segments i and j come from one group: a timeline segment
\* does not carry its groupId, but handleAnalyze gave every group of the
\* run its own palette entry, so two segments of one palette colour come
\* from one groupId (the two pieces of a split share their segment's)
SameGroup(segs, i, j) ==
  /\ segs[i].color # FallbackColor
  /\ segs[i].color = segs[j].color

\* C9: in every timeline state reached by Load, Split, Delete, undo and
\* redo, among the timeline segments that come from one groupId (those of
\* different clips included) at most one has isBest = true.
C9_OneBestPerGroupOnTimeline ==
  \A i, j \in 1..Len(history.present) :
    ( /\ i # j
      /\ SameGroup(history.present, i, j)
      /\ history.present[i].isBest ) => ~history.present[j].isBest

\* a run of handleAnalyze ends in this step and leaves clip i of the media
\* pool without an analysis: its analysis failed
AnalysisFailedFor(i) ==
  /\ status = "ANALYZING"
  /\ status' # "ANALYZING"
  /\ i \in 1..Len(clips')
  /\ ~clips'[i].analysis.has

\* C10: when the analysis of a clip fails, the run is reported as failed
\* and past, present and future of the history are as they were, so no
\* segment of that run is on the timeline.
C10_FailedAnalysisLeavesTimeline ==
  [][ (\E i \in 1..MaxClips : AnalysisFailedFor(i))
        => (status' = "ERROR" /\ history' = history) ]_vars

\* C11: Delete changes state only when the selected id is in the present
\* sequence: with an absent id past, present and future stay as they are;
\* with a present id exactly that entry goes and the others keep their
\* ids, fields and order.
C11_DeleteFrame ==
  [][ handleDelete =>
        IF selectedSegmentId \notin IdsOf(history.present)
        THEN history' = history
        ELSE \E k \in 1..Len(history.present) :
               /\ history.present[k].id = selectedSegmentId
               /\ history'.present =
                    SubSeq(history.present, 1, k - 1)
                      \o SubSeq(history.present, k + 1, Len(history.present)) ]_vars

(***************************************************************************)
(* Claims about editing a loaded timeline (SpecEdit).                      *)
(***************************************************************************)
\* this step of handleSplit performed a split
SplitPerformed == handleSplit /\ history' # history

\* C12: when handleSplit performs a split, the one segment of duration T
\* is replaced in place by two adjacent segments [start, p] and [p, end]
\* whose durations sum to T; every other segment and the order are
\* unchanged, and so is the total duration of the sequence.
C12_SplitKeepsDuration ==
  [][ SplitPerformed =>
        LET old == history.present
            new == history'.present
        IN  /\ Len(new) = Len(old) + 1
            /\ \E k \in 1..Len(old) :
                 LET p == new[k].end
                 IN  /\ old[k].start < p
                     /\ p < old[k].end
                     /\ new[k] = [old[k] EXCEPT !.id = new[k].id, !.end = p]
                     /\ new[k + 1] =
                          [old[k] EXCEPT !.id = new[k + 1].id, !.start = p]
                     /\ (new[k].end - new[k].start)
                          + (new[k + 1].end - new[k + 1].start)
                          = old[k].end - old[k].start
                     /\ SubSeq(new, 1, k - 1) = SubSeq(old, 1, k - 1)
                     /\ SubSeq(new, k + 2, Len(new))
                          = SubSeq(old, k + 1, Len(old))
            /\ TotalDuration(new) = TotalDuration(old) ]_vars

\* the last set of the history was a split: the snapshot before it is one
\* segment shorter, and the second piece is selected
AfterSplit ==
  /\ history.past # <<>>
  /\ Len(history.present) = Len(history.past[Len(history.past)]) + 1
  /\ \E k \in 1..(Len(history.present) - 1) :
       /\ history.present[k + 1].id = selectedSegmentId
       /\ history.present[k].end = history.present[k + 1].start
       /\ history.present[k].clipId = history.present[k + 1].clipId

\* C12 witness: a split of a segment that does not start at 0 in its clip
\* and is not the first of the timeline, into pieces of different length.
C12_Witness ==
  /\ AfterSplit
  /\ \E k \in 2..(Len(history.present) - 1) :
       /\ history.present[k + 1].id = selectedSegmentId
       /\ history.present[k].start > 0
       /\ SegmentDuration(history.present[k])
            # SegmentDuration(history.present[k + 1])

\* the playhead is on no segment, or nearer than the minimum duration to
\* the start or the end of the segment it is on
TooCloseToSplit(segs, time) ==
  \A i \in 1..Len(segs) :
    LET from == SegmentStartTime(segs, i)
        to == from + (segs[i].end - segs[i].start)
    IN  (from <= time /\ time < to) =>
          (time - from < MinDur \/ to - time < MinDur)

\* C13: Split is a no-op (past, present, future and the selection are
\* unchanged) when the playhead is on no segment or nearer than 0.1 s to
\* the start or end of its segment; so every segment a split produces
\* has duration >= 0.1 s.
C13_SplitRejectedNearEdges ==
  [][ handleSplit =>
        /\ TooCloseToSplit(history.present, timelineTime) =>
             /\ history' = history
             /\ selectedSegmentId' = selectedSegmentId
        /\ \A i \in 1..Len(history'.present) :
             history'.present[i].id \notin IdsOf(history.present) =>
               history'.present[i].end - history'.present[i].start >= MinDur
     ]_vars

\* C13 witness: after a split that left a piece of exactly the minimum
\* duration, with the playhead inside a segment and too close to its edge.
C13_Witness ==
  /\ AfterSplit
  /\ \E i \in 1..Len(history.present) :
       /\ history.present[i].id = selectedSegmentId
       /\ SegmentDuration(history.present[i]) = MinDur
  /\ SplitTargetIndex(history.present, timelineTime) # 0
  /\ TooCloseToSplit(history.present, timelineTime)

\* the times getCurrentSegmentAndOffset is asked about: from before the
\* timeline to after its end
ResolveTimes(segs) == (0 - 1)..(TotalDuration(segs) + 1)

\* the segments whose stretch of the timeline holds time t
SegmentsAt(segs, t) ==
  { i \in 1..Len(segs) :
      /\ TotalDuration(SubSeq(segs, 1, i - 1)) <= t
      /\ t < TotalDuration(SubSeq(segs, 1, i)) }

\* C14: getCurrentSegmentAndOffset(t) returns the first segment i with
\* sum(dur[0..i-1]) <= t < sum(dur[0..i]) and the offset t - sum(dur[0..i-1]);
\* none when t < 0, t >= total duration or the sequence is empty; a time on
\* the boundary of two segments gives the later one with offset 0; and
\* 0 <= offset < duration of the returned segment.
C14_Resolve ==
  LET segs == history.present
  IN  \A t \in ResolveTimes(segs) :
        LET r == getCurrentSegmentAndOffset(segs, t)
            at == SegmentsAt(segs, t)
        IN  /\ IF at = {}
               THEN r = NoSegment
               ELSE /\ r.found
                    /\ r.index \in at
                    /\ \A i \in at : r.index <= i
                    /\ r.offset = t - TotalDuration(SubSeq(segs, 1, r.index - 1))
                    /\ 0 <= r.offset
                    /\ r.offset < segs[r.index].end - segs[r.index].start
            /\ (t < 0 \/ t >= TotalDuration(segs) \/ segs = <<>>) => ~r.found
            /\ \A i \in 2..Len(segs) :
                 ( /\ t = TotalDuration(SubSeq(segs, 1, i - 1))
                   /\ segs[i - 1].end > segs[i - 1].start
                   /\ segs[i].end > segs[i].start )
                 => (r.found /\ r.index = i /\ r.offset = 0)

\* C14 witness: the playhead on the boundary between the second and the
\* third of three segments, resolved to the third with offset 0.
C14_Witness ==
  /\ Len(history.present) >= 3
  /\ timelineTime = TotalDuration(SubSeq(history.present, 1, 2))
  /\ getCurrentSegmentAndOffset(history.present, timelineTime)
       = [found |-> TRUE, index |-> 3, offset |-> 0]

(***************************************************************************)
(* Timeline sequence operations behind the drag gestures.  Positions are   *)
(* counted from 0 as in the source.                                        *)
(***************************************************************************)
RemoveAt(seq, index) ==
  [ k \in 1..(Len(seq) - 1) |-> IF k <= index THEN seq[k] ELSE seq[k + 1] ]

InsertAt(seq, index, entry) ==
  [ k \in 1..(Len(seq) + 1) |->
      IF k <= index THEN seq[k]
      ELSE IF k = index + 1 THEN entry
      ELSE seq[k - 1] ]

\* (a variant that exchanges the two entries)
ReorderSwap(seq, fromIndex, toIndex) ==
  IF fromIndex \notin 0..(Len(seq) - 1) \/ toIndex \notin 0..(Len(seq) - 1)
  THEN seq
  ELSE [ k \in 1..Len(seq) |->
           IF k = fromIndex + 1 THEN seq[toIndex + 1]
           ELSE IF k = toIndex + 1 THEN seq[fromIndex + 1]
           ELSE seq[k] ]

\* the entry at fromIndex is removed and reinserted at toIndex of the
\* remaining list; a position that is not in the sequence changes nothing
Reorder(seq, fromIndex, toIndex) ==
  IF fromIndex \notin 0..(Len(seq) - 1) \/ toIndex \notin 0..(Len(seq) - 1)
  THEN seq
  ELSE InsertAt(RemoveAt(seq, fromIndex), toIndex, seq[fromIndex + 1])

\* the range of the segment is replaced, newStart clamped at 0; an unknown
\* id or a range shorter than the minimum changes nothing
Resize(seq, segmentId, newStart, newEnd) ==
  LET start == Max(0, newStart)
  IN  [ k \in 1..Len(seq) |->
          IF seq[k].id = segmentId /\ newEnd - start >= MinDur
          THEN [ seq[k] EXCEPT !.start = start, !.end = newEnd ]
          ELSE seq[k] ]

\* the handlers the editor passes to the timeline
onReorderSegments(curr, fromIndex, toIndex) ==
  setSegments(curr, ValueArg(Reorder(curr.present, fromIndex, toIndex)))

onResizeSegment(curr, segmentId, newStart, newEnd) ==
  setSegments(curr, ValueArg(Resize(curr.present, segmentId, newStart, newEnd)))

(***************************************************************************)
(* The gestures of the timeline on a loaded timeline.  gestureOps counts   *)
(* the operations issued to the committed sequence since the last          *)
(* mouse-down.                                                             *)
(***************************************************************************)
DragInit ==
  /\ ValidatorUnused
  /\ lastOp = NoOp
  /\ run = NoRun
  /\ \E n \in 1..MaxDragClips :
       \E outcome \in [1..n -> 1..2] :
         LET ready == ReadyClips(n, LoadedClipDuration)
             analyses == Analyses(ready, outcome)
             updatedClips == UpdatedClips(ready, analyses)
             order == GroupOrder(ready, analyses, <<>>)
             newIds == GenerateIds(TimelineLength(updatedClips),
                                   HeldIds(InitialHistory(<<>>), NoId))
             newSegments == BuildTimeline(updatedClips, order, newIds)
         IN  /\ clips = updatedClips
             /\ history = setSegments(InitialHistory(<<>>),
                                      ValueArg(newSegments))
  /\ status = "COMPLETED"
  /\ pending = <<>>
  /\ selectedSegmentId = NoId
  /\ timelineTime = 0
  /\ analysisRuns = 1
  /\ PlaybackIdle
  /\ NoGesture
  /\ NoInputOutput

\* mouse-down on a segment (type "move") or on one of its handles
GestureStart(type) ==
  /\ Len(history.past) < MaxEdits
  /\ \E index \in 0..(Len(history.present) - 1) :
       LET seg == history.present[index + 1]
       IN  /\ dragState' = [ type |-> type, segmentId |-> seg.id,
                             segmentIndex |-> index ]
           /\ selectedSegmentId' = seg.id
  /\ previewClipId' = NoId
  /\ gestureOps' = 0
  /\ UNCHANGED <<history, lastOp, run, clips, status, pending, timelineTime,
                 analysisRuns, isPlaying, dropTargetIndex, validatorVars, ioVars>>

handleDragStart ==
  /\ dragState = NoDrag
  /\ GestureStart("move")

handleResizeStart ==
  /\ dragState = NoDrag
  /\ \E side \in {"resize-left", "resize-right"} : GestureStart(side)

\* the pointer is left of the midpoint of the segment at targetIndex, or
\* right of every midpoint (targetIndex = length)
handleMouseMove ==
  /\ dragState # NoDrag
  /\ dragState.type = "move"
  /\ \E targetIndex \in 0..Len(history.present) :
       dropTargetIndex' = IF targetIndex # dragState.segmentIndex
                          THEN targetIndex
                          ELSE NoIndex
  /\ UNCHANGED <<history, lastOp, run, appVars, playVars, dragState,
                 gestureOps, validatorVars, ioVars>>

handleMouseUp ==
  /\ dragState # NoDrag
  /\ IF dragState.type = "move" /\ dropTargetIndex # NoIndex
     THEN /\ history' = onReorderSegments(history, dragState.segmentIndex,
                                          dropTargetIndex)
          /\ gestureOps' = gestureOps + 1
     ELSE UNCHANGED <<history, gestureOps>>
  /\ dragState' = NoDrag
  /\ dropTargetIndex' = NoIndex
  /\ UNCHANGED <<lastOp, run, clips, status, pending, selectedSegmentId,
                 timelineTime, analysisRuns, playVars, validatorVars, ioVars>>

\* a mouse-move anywhere while a handle is held
handleResizeDrag ==
  /\ dragState # NoDrag
  /\ dragState.type \in {"resize-left", "resize-right"}
  /\ Len(history.past) < MaxEdits
  /\ \E k \in 1..Len(history.present) :
       /\ history.present[k].id = dragState.segmentId
       /\ \E deltaTime \in (0 - MaxDragDelta)..MaxDragDelta :
            LET seg == history.present[k]
                newStart == Max(0, seg.start + deltaTime)
                newEnd == Max(seg.start + MinDur, seg.end + deltaTime)
            IN  IF dragState.type = "resize-left"
                THEN IF newStart < seg.end - MinDur
                     THEN /\ history' = onResizeSegment(history, seg.id,
                                                        newStart, seg.end)
                          /\ gestureOps' = gestureOps + 1
                     ELSE UNCHANGED <<history, gestureOps>>
                ELSE /\ history' = onResizeSegment(history, seg.id,
                                                   seg.start, newEnd)
                     /\ gestureOps' = gestureOps + 1
  /\ UNCHANGED <<lastOp, run, appVars, playVars, dragState, dropTargetIndex,
                 validatorVars, ioVars>>

DragNext ==
  \/ handleDragStart
  \/ handleResizeStart
  \/ handleMouseMove
  \/ handleMouseUp
  \/ handleResizeDrag

SpecDrag == DragInit /\ [][DragNext]_vars

(***************************************************************************)
(* Claims about the drag gestures (SpecDrag).                              *)
(***************************************************************************)
\* C15: Reorder(seq, i, j) for valid positions i, j removes the entry at i
\* and reinserts it at position j of the remaining list: the result is a
\* permutation of seq, the other entries keep their relative order, the
\* total duration is unchanged and Reorder(result, j, i) restores seq.
C15_ReorderIsMove ==
  LET seq == history.present
      positions == 0..(Len(seq) - 1)
  IN  \A i \in positions : \A j \in positions :
        LET result == Reorder(seq, i, j)
        IN  /\ Len(result) = Len(seq)
            /\ result[j + 1] = seq[i + 1]
            /\ RemoveAt(result, j) = RemoveAt(seq, i)
            /\ \E perm \in [1..Len(seq) -> 1..Len(seq)] :
                 /\ \A a, b \in 1..Len(seq) : perm[a] = perm[b] => a = b
                 /\ \A a \in 1..Len(seq) : result[perm[a]] = seq[a]
            /\ TotalDuration(result) = TotalDuration(seq)
            /\ Reorder(result, j, i) = seq

\* C15 witness: a move gesture has just relocated an entry of a timeline
\* of at least three segments over at least two others.
C15_Witness ==
  /\ dragState = NoDrag
  /\ gestureOps = 1
  /\ Len(history.present) >= 3
  /\ Len(history.past) >= 1
  /\ LET before == history.past[Len(history.past)]
     IN  /\ Len(before) = Len(history.present)
         /\ \E i, j \in 0..(Len(before) - 1) :
              /\ i - j >= 2 \/ j - i >= 2
              /\ history.present = Reorder(before, i, j)
              /\ history.present # before

\* C17: between the mouse-down and the mouse-up of a move or resize
\* gesture no reorder or resize operation is issued to the committed
\* sequence, and a gesture issues at most one operation, at its completion.
C17_NoOperationDuringGesture ==
  /\ dragState # NoDrag => gestureOps = 0
  /\ gestureOps <= 1

(***************************************************************************)
(* The editor with the analyzeClipsWithGemini of services/geminiService:   *)
(* one request for all clips, whose answer is parsed and handed back as    *)
(* it is.                                                                  *)
(***************************************************************************)
\* JSON.parse of a list of candidates: the numbers and strings as sent,
\* the literal true as the Boolean
JsonSegments(segments) ==
  [ k \in 1..Len(segments) |->
      [ segments[k] EXCEPT !.isBest = Boolean(segments[k].isBest) ] ]

\* the results of the service: outcome[i] = 0 when no entry of the answer
\* carries clip i's file name, else the raw list answered for it
LegacyAnalyses(clipList, outcome) ==
  [ id \in { clipList[i].id : i \in 1..Len(clipList) } |->
      LET i == CHOOSE k \in 1..Len(clipList) : clipList[k].id = id
      IN  IF outcome[i] = 0
          THEN NoAnalysis
          ELSE [ has |-> TRUE,
                 segments |->
                   JsonSegments(RawMenu(clipList[i].duration)[outcome[i]]) ] ]

\* handleAnalyze after its await, with the results of the service
LegacyAnalyzeCompletes ==
  /\ status = "ANALYZING"
  /\ Len(history.past) < MaxEdits
  /\ \E outcome \in [1..Len(pending) -> 0..2] :
       LET analyses == LegacyAnalyses(pending, outcome)
           updatedClips == UpdatedClips(pending, analyses)
           order == GroupOrder(pending, analyses, <<>>)
           newIds == GenerateIds(TimelineLength(updatedClips),
                                 HeldIds(history, selectedSegmentId))
           newSegments == BuildTimeline(updatedClips, order, newIds)
       IN  /\ clips' = updatedClips
           /\ history' = setSegments(history, ValueArg(newSegments))
  /\ status' = "COMPLETED"
  /\ pending' = <<>>
  /\ UNCHANGED <<lastOp, run, selectedSegmentId, timelineTime, analysisRuns,
                 validatorVars, ioVars, playVars, dragVars>>

LegacyNext ==
  \/ handleUpload
  \/ MetadataLoaded
  \/ MetadataError
  \/ AnalyzeStart
  \/ AnalyzeThrows
  \/ LegacyAnalyzeCompletes
  \/ SelectSegment
  \/ Seek

SpecLegacy == AppInit /\ [][LegacyNext]_vars

\* C16: every segment list that reaches the timeline has been passed
\* through validateSegments and enforceOneBestPerGroup with the clip's
\* duration: what a completed analysis stores for a clip is the validated
\* form of a list the model answered for it.
C16_TimelineIsValidated ==
  [][ (status = "ANALYZING" /\ status' = "COMPLETED") =>
        \A i \in 1..Len(clips') :
          clips'[i].analysis.has =>
            \E k \in 1..Len(RawMenu(clips'[i].duration)) :
              clips'[i].analysis.segments =
                ValidatedAnalysis(RawMenu(clips'[i].duration)[k],
                                  clips'[i].duration) ]_vars

\* C18: a clip whose duration has not been supplied by the metadata probe
\* (duration still 0, status loading or error) is never passed to the
\* analysis and the validator: every clip handleAnalyze hands over has a
\* duration that was loaded.
C18_AnalysedClipsHaveDuration ==
  status = "ANALYZING" =>
    \A i \in 1..Len(pending) :
      /\ pending[i].status = "ready"
      /\ pending[i].duration > 0

\* C20: for every raw segment whose score is a number s the validated
\* score is min(100, max(0, s)); the default 50 is applied only when the
\* score is missing or not a number, so a score of 0 stays 0.
C20_ScoreClampedOrDefault ==
  vpc = "validated" =>
    \A i \in 1..Len(validated) :
      LET s == rawSegments[validated[i].text].score
      IN  validated[i].score =
            IF s = NaN THEN DefaultScore ELSE Min(MaxScore, Max(0, s))

(***************************************************************************)
(* Claims about playback (SpecPlayback).                                   *)
(***************************************************************************)
\* C19: while playing in timeline mode each tick advances timelineTime by
\* the elapsed delta but never above totalDuration; a tick that stops
\* playback leaves timelineTime = totalDuration; once isPlaying is false
\* no tick changes timelineTime; and under fair ticking, when the user
\* input ends, playback in timeline mode eventually halts.
C19_PlaybackHalts ==
  /\ [][ tick =>
           LET totalDuration == TotalDuration(history.present)
           IN  /\ timelineTime' <= totalDuration
               /\ \E delta \in 1..MaxTickDelta :
                    \/ timelineTime' = timelineTime + delta
                    \/ /\ timelineTime + delta >= totalDuration
                       /\ timelineTime' = totalDuration
               /\ (~isPlaying') => timelineTime' = totalDuration ]_vars
  /\ [][ (~isPlaying /\ timelineTime' # timelineTime) => ~tick ]_vars
  /\ (<>[][~PlaybackInput]_vars)
       => <>[](previewClipId = NoId => ~isPlaying)

\* C19 witness: a tick has just stopped playback at the end of a timeline
\* that has a duration.
C19_Witness ==
  /\ lastOp.op = "tick"
  /\ ~isPlaying
  /\ previewClipId = NoId
  /\ TotalDuration(history.present) > 0
  /\ timelineTime = TotalDuration(history.present)

(***************************************************************************)
(* Claims about ranges, ids and the loaded timeline.                       *)
(***************************************************************************)
\* C21: every segment range the validator produces satisfies end > start:
\* no zero-length or inverted range, also when two raw segments have the
\* same start or one is shrunk by the overlap pass.
C21_RangesNotEmpty ==
  vpc = "validated" =>
    \A i \in 1..Len(validated) : validated[i].end > validated[i].start

(***************************************************************************)
(* The editor with generateId as the source has it: every call draws a     *)
(* value, and no call looks at the ids in use.  The ids are the values     *)
(* 1..MaxIds.  The editor is taken while handleAnalyze awaits the analysis *)
(* of its clips.                                                           *)
(***************************************************************************)
IdSpace == 1..MaxIds

\* what n calls of generateId in a row may return
DrawnIds(n) == [1..n -> IdSpace]

IdsInit ==
  /\ ValidatorUnused
  /\ history = InitialHistory(<<>>)
  /\ lastOp = NoOp
  /\ run = NoRun
  /\ \E n \in 1..MaxLoadedClips : clips = ReadyClips(n, LoadedClipDuration)
  /\ status = "ANALYZING"
  /\ pending = clips
  /\ selectedSegmentId = NoId
  /\ timelineTime = 0
  /\ analysisRuns = 1
  /\ PlaybackIdle
  /\ NoGesture
  /\ NoInputOutput

\* handleAnalyze after its await, each segment with a drawn id
AnalyzeCompletesDrawing ==
  /\ status = "ANALYZING"
  /\ Len(history.past) < MaxEdits
  /\ \E outcome \in [1..Len(pending) -> 0..2] :
       LET analyses == Analyses(pending, outcome)
           updatedClips == UpdatedClips(pending, analyses)
           order == GroupOrder(pending, analyses, <<>>)
       IN  \E newIds \in DrawnIds(TimelineLength(updatedClips)) :
             LET newSegments == BuildTimeline(updatedClips, order, newIds)
             IN  /\ clips' = updatedClips
                 /\ history' = setSegments(history, ValueArg(newSegments))
  /\ status' = "COMPLETED"
  /\ pending' = <<>>
  /\ UNCHANGED <<lastOp, run, selectedSegmentId, timelineTime, analysisRuns,
                 validatorVars, ioVars, playVars, dragVars>>

\* handleSplit, both pieces with a drawn id
handleSplitDrawing ==
  /\ Len(history.past) < MaxEdits
  /\ IF SplitRejected(history.present, timelineTime)
     THEN UNCHANGED <<history, selectedSegmentId>>
     ELSE \E newIds \in DrawnIds(2) :
            LET newSegments ==
                  SplitSegments(history.present, timelineTime,
                                newIds[1], newIds[2])
            IN  /\ history' = setSegments(history, ValueArg(newSegments))
                /\ selectedSegmentId' = newIds[2]
  /\ UNCHANGED <<lastOp, run, clips, status, pending, timelineTime,
                 analysisRuns, validatorVars, ioVars, playVars, dragVars>>

IdsNext ==
  \/ AnalyzeCompletesDrawing
  \/ SelectSegment
  \/ Seek
  \/ handleDelete
  \/ handleSplitDrawing
  \/ Undo
  \/ Redo

SpecIds == IdsInit /\ [][IdsNext]_vars

\* C22: in every timeline state reachable by Load, Split, Delete, undo and
\* redo the ids of the segments of the present sequence are pairwise
\* distinct, and a split selects its second piece, whose id differs from
\* the id of the first.
C22_IdsDistinct ==
  /\ \A i, j \in 1..Len(history.present) :
       i # j => history.present[i].id # history.present[j].id
  /\ selectedSegmentId # NoId =>
       Cardinality({ i \in 1..Len(history.present) :
                       history.present[i].id = selectedSegmentId }) <= 1

\* what a timeline segment carries of its analysed segment
CarriedOf(seg) ==
  [ start |-> seg.start, end |-> seg.end, isBest |-> seg.isBest,
    score |-> seg.score, text |-> seg.text ]

CarriedSeq(segs) == [ k \in 1..Len(segs) |-> CarriedOf(segs[k]) ]

\* the position in the media pool of the clip a timeline segment is from
PoolPosition(clipList, seg) ==
  CHOOSE i \in 1..Len(clipList) : clipList[i].id = seg.clipId

\* C23: the timeline handleAnalyze builds holds exactly one segment per
\* validated segment of every analysed clip, clips in media-pool order and
\* each clip's segments in ascending start order, each with its segment's
\* start, end, isBest, score and text and its clip's id; it is committed
\* with one set of the history, so one undo restores the timeline before.
C23_LoadBuildsTimeline ==
  [][ (status = "ANALYZING" /\ status' = "COMPLETED") =>
        LET new == history'.present
        IN  /\ \A k \in 1..Len(new) :
                 \E i \in 1..Len(clips') :
                   clips'[i].id = new[k].clipId /\ clips'[i].analysis.has
            /\ \A i \in 1..Len(clips') :
                 LET ofClip == SelectSeq(new,
                                 LAMBDA s : s.clipId = clips'[i].id)
                 IN  IF clips'[i].analysis.has
                     THEN CarriedSeq(ofClip) =
                            CarriedSeq(SortByStart(clips'[i].analysis.segments))
                     ELSE ofClip = <<>>
            /\ \A a, b \in 1..Len(new) :
                 a < b =>
                   /\ PoolPosition(clips', new[a]) <= PoolPosition(clips', new[b])
                   /\ new[a].clipId = new[b].clipId
                        => new[a].start <= new[b].start
            /\ history'.past = Append(history.past, history.present)
            /\ history'.future = <<>>
            /\ undo(history').present = history.present ]_vars

\* C23 witness: a run of handleAnalyze has just loaded the segments of two
\* analysed clips, one of them with two takes.
C23_Witness ==
  /\ status = "COMPLETED"
  /\ Len(history.past) = 1
  /\ history.future = <<>>
  /\ Len(history.present) >= 3
  /\ Len(clips) = 2
  /\ \A i \in 1..Len(clips) :
       /\ clips[i].analysis.has
       /\ \E k \in 1..Len(history.present) :
            history.present[k].clipId = clips[i].id
  /\ Len(history.present) = TimelineLength(clips)

\* C25: the clips uploaded, and the metadata loaded, while handleAnalyze
\* awaits the analysis are still in the media pool after the analysis
\* completes: the completion keeps every clip of the pool, with the
\* duration it has, and changes a clip only by giving it its analysis.
C25_UploadsSurviveAnalysis ==
  [][ (status = "ANALYZING" /\ status' = "COMPLETED") =>
        /\ Len(clips') = Len(clips)
        /\ \A i \in 1..Len(clips) :
             /\ clips'[i].id = clips[i].id
             /\ clips'[i].duration = clips[i].duration
             /\ clips'[i].status \in {clips[i].status, "done"} ]_vars

(***************************************************************************)
(* Claims about the linear history (SpecHistory).                          *)
(***************************************************************************)
\* the snapshots of a history in order
Linear(h) == h.past \o <<h.present>> \o h.future

\* C24: undo and redo preserve the linear history: past ++ [present] ++
\* future is unchanged by every undo and redo, the position of present
\* moves by at most one, |past| + |future| is unchanged, and undo then redo
\* (past non-empty) or redo then undo (future non-empty) restores the
\* exact triple.
C24_LinearHistory ==
  /\ lastOp.op \in {"undo", "redo"} =>
       /\ Linear(history) = Linear(lastOp.before)
       /\ Len(history.past) - Len(lastOp.before.past) \in {0 - 1, 0, 1}
       /\ Len(history.past) + Len(history.future)
            = Len(lastOp.before.past) + Len(lastOp.before.future)
  /\ canUndo(history) => redo(undo(history)) = history
  /\ canRedo(history) => undo(redo(history)) = history

\* C24 witness: an undo has just moved the present back over a history that
\* already had a redoable snapshot, with distinct snapshots around it.
C24_Witness ==
  /\ lastOp.op = "undo"
  /\ canUndo(lastOp.before)
  /\ canUndo(history)
  /\ Len(history.future) >= 2
  /\ history.future[1] # history.future[2]
  /\ history.present # history.future[1]

(***************************************************************************)
(* analyzeClipsWithGemini and analyzeClip.  One call works through its     *)
(* clips in order; each clip is analysed by up to 1 + maxRetries attempts  *)
(* of analyzeClip.  A file above FILE_API_THRESHOLD_MB goes through the    *)
(* Files API, a smaller one is sent inline.  Every await may throw.  An    *)
(* error is named by the call that raised it; log keeps, per clip, how     *)
(* each of its attempts ended.                                             *)
(***************************************************************************)
\* catch: if (uploadedFile) delete it -- the delete requests of the attempt
\* (a variant whose catch requests nothing)
CatchDeletesNothing(s) == s.deletes

CatchDeletes(s) == IF s.uploadedFile THEN s.deletes + 1 ELSE s.deletes

\* (a variant that retries once more)
ShouldRetryOnceMore(retryCount) == retryCount <= maxRetries

\* if (retryCount < maxRetries)
ShouldRetry(retryCount) == retryCount < maxRetries

\* the for loop goes on to the next clip, or the results are returned
NextClip(s) ==
  [ s EXCEPT !.clip = @ + 1,
             !.pc = IF s.clip < s.n THEN "loop" ELSE "returned",
             !.retryCount = 0,
             !.uploadedFile = FALSE,
             !.deletes = 0 ]

\* the bookkeeping of an attempt that ends: how it ended is logged, and
\* one that leaves with an uploaded file and no delete request is counted
AttemptEnds(s, deletes, outcome) ==
  [ s EXCEPT !.log[s.clip] = Append(@, outcome),
             !.undeleted =
               IF s.uploadedFile /\ deletes = 0 THEN @ + 1 ELSE @ ]

\* the catch block of analyzeClip for an error of the running attempt
Catch(s, error) ==
  LET deletes == CatchDeletes(s)
      ended == AttemptEnds(s, deletes, error)
  IN  IF ShouldRetry(s.retryCount)
      THEN [ ended EXCEPT !.retryCount = @ + 1,
                          !.pc = "start",
                          !.uploadedFile = FALSE,
                          !.deletes = 0,
                          !.attempts[s.clip] = @ + 1 ]
      ELSE NextClip([ ended EXCEPT !.thrown[s.clip] = error ])

ServiceInit ==
  /\ ValidatorUnused
  /\ HistoryUnused
  /\ AppUnused
  /\ exportJob = NoExport
  /\ \E n \in 1..MaxServiceClips :
       \E large \in [1..n -> BOOLEAN] :
         \E compress \in [1..n -> BOOLEAN] :
           service = [ pc |-> "loop", n |-> n, large |-> large,
                       compress |-> compress, clip |-> 1, retryCount |-> 0,
                       uploadedFile |-> FALSE, deletes |-> 0,
                       results |-> {},
                       attempts |-> [c \in 1..n |-> 0],
                       log |-> [c \in 1..n |-> <<>>],
                       thrown |-> [c \in 1..n |-> "none"],
                       undeleted |-> 0 ]

\* compressVideo throws: the clip fails before analyzeClip is called
CompressFails ==
  /\ service.pc = "loop"
  /\ service.compress[service.clip]
  /\ service' = NextClip([ service EXCEPT !.thrown[service.clip] = "compress" ])
  /\ UNCHANGED <<validatorVars, historyVars, appVars, playVars, dragVars,
                 exportJob>>

\* analyzeClip is called for the clip
CallAnalyzeClip ==
  /\ service.pc = "loop"
  /\ service' = [ service EXCEPT !.pc = "start",
                                 !.attempts[service.clip] = 1 ]
  /\ UNCHANGED <<validatorVars, historyVars, appVars, playVars, dragVars,
                 exportJob>>

\* ai.files.upload throws: uploadedFile is still null
UploadFails ==
  /\ service.pc = "start"
  /\ service.large[service.clip]
  /\ service' = Catch(service, "upload")
  /\ UNCHANGED <<validatorVars, historyVars, appVars, playVars, dragVars,
                 exportJob>>

UploadSucceeds ==
  /\ service.pc = "start"
  /\ service.large[service.clip]
  /\ service' = [ service EXCEPT !.pc = "uploaded", !.uploadedFile = TRUE ]
  /\ UNCHANGED <<validatorVars, historyVars, appVars, playVars, dragVars,
                 exportJob>>

\* toBase64 rejects
EncodeFails ==
  /\ service.pc = "start"
  /\ ~service.large[service.clip]
  /\ service' = Catch(service, "encode")
  /\ UNCHANGED <<validatorVars, historyVars, appVars, playVars, dragVars,
                 exportJob>>

EncodeSucceeds ==
  /\ service.pc = "start"
  /\ ~service.large[service.clip]
  /\ service' = [ service EXCEPT !.pc = "ready" ]
  /\ UNCHANGED <<validatorVars, historyVars, appVars, playVars, dragVars,
                 exportJob>>

\* waitForFile throws: the file FAILED, or ai.files.get threw
FileFails ==
  /\ service.pc = "uploaded"
  /\ service' = Catch(service, "file")
  /\ UNCHANGED <<validatorVars, historyVars, appVars, playVars, dragVars,
                 exportJob>>

FileReady ==
  /\ service.pc = "uploaded"
  /\ service' = [ service EXCEPT !.pc = "ready" ]
  /\ UNCHANGED <<validatorVars, historyVars, appVars, playVars, dragVars,
                 exportJob>>

\* ai.models.generateContent throws
GenerateFails ==
  /\ service.pc = "ready"
  /\ service' = Catch(service, "generate")
  /\ UNCHANGED <<validatorVars, historyVars, appVars, playVars, dragVars,
                 exportJob>>

\* generateContent returns; the uploaded file is deleted in the try block
GenerateSucceeds ==
  /\ service.pc = "ready"
  /\ service' = [ service EXCEPT !.pc = "generated",
                                 !.deletes = IF service.uploadedFile
                                             THEN @ + 1 ELSE @ ]
  /\ UNCHANGED <<validatorVars, historyVars, appVars, playVars, dragVars,
                 exportJob>>

\* the response is empty, or JSON.parse throws
ResponseFails ==
  /\ service.pc = "generated"
  /\ service' = Catch(service, "response")
  /\ UNCHANGED <<validatorVars, historyVars, appVars, playVars, dragVars,
                 exportJob>>

\* the response is validated and returned; results[clip.id] = analysis
ResponseSucceeds ==
  /\ service.pc = "generated"
  /\ service' =
       NextClip([ AttemptEnds(service, service.deletes, "ok") EXCEPT
                    !.results = @ \cup {service.clip} ])
  /\ UNCHANGED <<validatorVars, historyVars, appVars, playVars, dragVars,
                 exportJob>>

ServiceNext ==
  \/ CompressFails
  \/ CallAnalyzeClip
  \/ UploadFails
  \/ UploadSucceeds
  \/ EncodeFails
  \/ EncodeSucceeds
  \/ FileFails
  \/ FileReady
  \/ GenerateFails
  \/ GenerateSucceeds
  \/ ResponseFails
  \/ ResponseSucceeds

SpecService == ServiceInit /\ [][ServiceNext]_vars

(***************************************************************************)
(* Claims about the analysis service (SpecService).                        *)
(***************************************************************************)
\* the clips the loop is through with
FinishedClips ==
  { c \in 1..service.n : c < service.clip }

\* C26: analyzeClip makes at most 3 attempts per clip; it returns the
\* result of the first successful attempt without further attempts; if all
\* 3 attempts fail it throws the error of the last one; the loop then goes
\* on with the remaining clips, and the result holds exactly the clips
\* whose analysis succeeded.
C26_AtMostThreeAttempts ==
  \A c \in 1..service.n :
    LET ended == service.log[c]
    IN  /\ service.attempts[c] <= 3
        /\ Len(ended) <= service.attempts[c]
        /\ \A k \in 1..(Len(ended) - 1) : ended[k] # "ok"
        /\ c \in service.results <=>
             (c \in FinishedClips /\ ended # <<>> /\ ended[Len(ended)] = "ok")
        /\ c \in FinishedClips =>
             /\ Len(ended) = service.attempts[c]
             /\ c \notin service.results =>
                  \/ service.thrown[c] = "compress" /\ ended = <<>>
                  \/ /\ Len(ended) = 3
                     /\ service.thrown[c] = ended[3]
        /\ service.pc = "returned" => c \in FinishedClips

\* C26 witness: the call has returned; the first clip failed in all three
\* attempts, each with another error, and the second succeeded in its
\* second attempt.
C26_Witness ==
  /\ service.pc = "returned"
  /\ service.n = 2
  /\ service.log[1] = <<"upload", "file", "generate">>
  /\ service.thrown[1] = "generate"
  /\ service.results = {2}
  /\ Len(service.log[2]) = 2

\* C27: no attempt of analyzeClip that uploaded the clip through the Files
\* API returns, retries or throws before a delete of the uploaded file was
\* requested; once generateContent has returned the delete has been
\* requested, and a new attempt starts with nothing uploaded.
C27_UploadedFileDeleted ==
  service.pc # "none" =>
    /\ service.undeleted = 0
    /\ (service.pc = "generated" /\ service.uploadedFile)
         => service.deletes >= 1
    /\ service.pc \in {"loop", "start", "returned"}
         => ~service.uploadedFile /\ service.deletes = 0

\* C27 witness: the call has returned after attempts with an uploaded file
\* that ended on each path: file processing failed, generateContent
\* failed, the response was unusable, and success.
C27_Witness ==
  /\ service.pc = "returned"
  /\ service.n = 2
  /\ service.large = [c \in 1..2 |-> TRUE]
  /\ service.log[1] = <<"file", "generate", "response">>
  /\ service.log[2] = <<"ok">>
  /\ service.undeleted = 0

(***************************************************************************)
(* Claims about the requests of the timeline gestures (SpecDrag).          *)
(***************************************************************************)
\* C28: every reorder request of the move gesture has fromIndex # toIndex
\* and both indices are positions of the current sequence (0..n-1), and a
\* drop at the gap right before or right after the dragged segment issues
\* no reorder.
C28_ReorderRequestsValid ==
  [][ (dragState.type = "move" /\ dragState' = NoDrag
         /\ gestureOps' = gestureOps + 1) =>
        LET positions == 0..(Len(history.present) - 1)
        IN  /\ dragState.segmentIndex \in positions
            /\ dropTargetIndex \in positions
            /\ dropTargetIndex # dragState.segmentIndex
            /\ dropTargetIndex # dragState.segmentIndex + 1 ]_vars

\* the sequence at the mouse-down of the gesture in progress: every
\* operation of the gesture has pushed one snapshot since
SequenceAtMouseDown ==
  IF gestureOps = 0 THEN history.present
  ELSE history.past[Len(history.past) - gestureOps + 1]

SegmentById(segs, id) ==
  segs[CHOOSE k \in 1..Len(segs) : segs[k].id = id]

\* C29: during one resize gesture the requested boundary follows the
\* displacement of the pointer since the mouse-down: each request sets the
\* start (left handle) or the end (right handle) to the value the boundary
\* had at the mouse-down plus some displacement dx the pointer can have,
\* limited by start >= 0 and the minimum duration, whatever the moves
\* delivered before; the other boundary stays as it was at the mouse-down.
C29_ResizeTracksPointer ==
  [][ (dragState.type \in {"resize-left", "resize-right"}
         /\ gestureOps' = gestureOps + 1) =>
        LET atDown == SegmentById(SequenceAtMouseDown, dragState.segmentId)
            new == SegmentById(history'.present, dragState.segmentId)
        IN  \E dx \in (0 - MaxDragDelta)..MaxDragDelta :
              IF dragState.type = "resize-left"
              THEN /\ new.start = Max(0, atDown.start + dx)
                   /\ new.end = atDown.end
              ELSE /\ new.end = Max(atDown.start + MinDur, atDown.end + dx)
                   /\ new.start = atDown.start ]_vars

(***************************************************************************)
(* exportVideo and the /api/export route of the server.  exportVideo is    *)
(* given the media pool and the timeline; a clip is its id and its file    *)
(* name, and a file is named by the id of the clip it belongs to.          *)
(***************************************************************************)
FileNames == {"a.mp4", "b.mp4"}

ExportPools ==
  UNION { [1..n -> [id : 1..MaxExportClips, name : FileNames]] :
          n \in 1..MaxExportClips }

ExportTimelines ==
  UNION { [1..n -> [clipId : 1..MaxExportClips, start : {0, 1}]] :
          n \in 0..MaxExportSegments }

\* clipMap[c.id] = c over the pool: the last clip of an id
ClipOf(pool, clipId) ==
  pool[CHOOSE i \in 1..Len(pool) :
         /\ pool[i].id = clipId
         /\ \A j \in (i + 1)..Len(pool) : pool[j].id # clipId]

HasClip(pool, clipId) == \E i \in 1..Len(pool) : pool[i].id = clipId

\* segmentData: the cut list
SegmentData(pool, segments) ==
  [ k \in 1..Len(segments) |->
      [ fileName |-> ClipOf(pool, segments[k].clipId).name,
        start |-> segments[k].start,
        end |-> segments[k].start + MinDur ] ]

\* [...new Set(segments.map(s => s.clipId))]: the ids in order of first use
RECURSIVE UsedClipIds(_, _)
UsedClipIds(segments, seen) ==
  IF segments = <<>> THEN seen
  ELSE UsedClipIds(Tail(segments),
                   IF \E k \in 1..Len(seen) : seen[k] = Head(segments).clipId
                   THEN seen
                   ELSE Append(seen, Head(segments).clipId))

\* formData.append('videos', clip.file, clip.name) for the used clips
UploadedVideos(pool, segments) ==
  LET used == UsedClipIds(segments, <<>>)
  IN  [ k \in 1..Len(used) |->
          [ originalname |-> ClipOf(pool, used[k]).name, file |-> used[k] ] ]

HasFile(files, fileName) ==
  \E i \in 1..Len(files) : files[i].originalname = fileName

\* fileMap[f.originalname] = f.path over the uploads: the last of a name
FileOf(files, fileName) ==
  files[CHOOSE i \in 1..Len(files) :
          /\ files[i].originalname = fileName
          /\ \A j \in (i + 1)..Len(files) : files[j].originalname # fileName].file

\* step 1 of the route: a segment whose file is not found is skipped
RECURSIVE Extracted(_, _)
Extracted(files, cutList) ==
  IF cutList = <<>> THEN <<>>
  ELSE LET seg == Head(cutList)
           rest == Extracted(files, Tail(cutList))
       IN  IF ~HasFile(files, seg.fileName)
           THEN rest
           ELSE << [ file |-> FileOf(files, seg.fileName),
                     start |-> seg.start, end |-> seg.end ] >> \o rest

ExportInit ==
  /\ ValidatorUnused
  /\ HistoryUnused
  /\ AppUnused
  /\ service = NoService
  /\ \E pool \in ExportPools :
       \E segments \in ExportTimelines :
         /\ \A i, j \in 1..Len(pool) : i # j => pool[i].id # pool[j].id
         /\ exportJob = [ pc |-> "called", pool |-> pool,
                          segments |-> segments, files |-> <<>>,
                          cutList |-> <<>>, rendered |-> <<>> ]

\* exportVideo throws: no segments, or a segment of a clip not in the pool
ExportThrows ==
  /\ exportJob.pc = "called"
  /\ \/ exportJob.segments = <<>>
     \/ \E k \in 1..Len(exportJob.segments) :
          ~HasClip(exportJob.pool, exportJob.segments[k].clipId)
  /\ exportJob' = [ exportJob EXCEPT !.pc = "error" ]
  /\ UNCHANGED <<validatorVars, historyVars, appVars, playVars, dragVars,
                 service>>

\* exportVideo posts the files and the cut list
ExportPosts ==
  /\ exportJob.pc = "called"
  /\ exportJob.segments # <<>>
  /\ \A k \in 1..Len(exportJob.segments) :
       HasClip(exportJob.pool, exportJob.segments[k].clipId)
  /\ exportJob' =
       [ exportJob EXCEPT
           !.pc = "posted",
           !.files = UploadedVideos(exportJob.pool, exportJob.segments),
           !.cutList = SegmentData(exportJob.pool, exportJob.segments) ]
  /\ UNCHANGED <<validatorVars, historyVars, appVars, playVars, dragVars,
                 service>>

\* the route extracts the segments and concatenates them
ServerRenders ==
  /\ exportJob.pc = "posted"
  /\ exportJob' =
       [ exportJob EXCEPT
           !.pc = "rendered",
           !.rendered = Extracted(exportJob.files, exportJob.cutList) ]
  /\ UNCHANGED <<validatorVars, historyVars, appVars, playVars, dragVars,
                 service>>

\* ffmpeg fails: the route answers 500 and exportVideo throws
ServerFails ==
  /\ exportJob.pc = "posted"
  /\ exportJob' = [ exportJob EXCEPT !.pc = "error" ]
  /\ UNCHANGED <<validatorVars, historyVars, appVars, playVars, dragVars,
                 service>>

ExportNext ==
  \/ ExportThrows
  \/ ExportPosts
  \/ ServerRenders
  \/ ServerFails

SpecExport == ExportInit /\ [][ExportNext]_vars

\* C30: the cut list sent to export has one entry per timeline segment in
\* timeline order, and each entry is rendered from the clip the segment's
\* clipId references, also when two clips of the pool have the same file
\* name: no segment is cut from another clip's file or left out.
C30_CutListFollowsTimeline ==
  /\ exportJob.pc \in {"posted", "rendered"} =>
       /\ Len(exportJob.cutList) = Len(exportJob.segments)
       /\ \A k \in 1..Len(exportJob.segments) :
            /\ exportJob.cutList[k].start = exportJob.segments[k].start
            /\ exportJob.cutList[k].fileName =
                 ClipOf(exportJob.pool, exportJob.segments[k].clipId).name
  /\ exportJob.pc = "rendered" =>
       exportJob.rendered =
         [ k \in 1..Len(exportJob.segments) |->
             [ file |-> exportJob.segments[k].clipId,
               start |-> exportJob.segments[k].start,
               end |-> exportJob.segments[k].start + MinDur ] ]

====
